---- MODULE Spec2Model ----
(***************************************************************************)
(* Model of the flash-loan front-end component Home() of                   *)
(* src/components/section/index.tsx: wallet connection, the Dispatcher     *)
(* executeContracts, the interval Scheduler (start/stop/runOnce), the      *)
(* wallet event handlers and the log/notification sink.                    *)
(*                                                                         *)
(* A text is a sequence of tokens; concatenation of JavaScript strings and *)
(* template literals is \o.  A React state cell is a variable; an event    *)
(* handler reads the cells of the render it was created in, so a handler   *)
(* kept by the browser (the setInterval callback) carries a copy of the    *)
(* cells it closed over.                                                   *)
(***************************************************************************)
EXTENDS Integers, Sequences, FiniteSets, TLC

VARIABLES
    hasProvider,          \* window.ethereum is present
    longTradeContract,    \* useState<Contract | null>: Null or the session that built it
    shortTradeContract,   \* useState<Contract | null>
    isConnected,          \* useState(false)
    isConnecting,         \* useState(false)
    logs,                 \* useState<string[]>([])
    toasts,               \* notifications handed to the toast subsystem, in order
    executionInterval,    \* useState<NodeJS.Timeout | null>: Null or a timer id
    isRunning,            \* useState(false)
    timers,               \* the browser's live setInterval timers: id -> bindings its callback closed over
    nextTimer,            \* the id the next setInterval returns
    runs,                 \* executeContracts invocations with a call or the join still outstanding
    connectPc,            \* the request connectWallet is suspended on, or "idle"
    sessionNo,            \* number of signers obtained so far
    lastOp                \* the operation that produced this state, with its input

progVars == <<hasProvider, longTradeContract, shortTradeContract, isConnected,
              isConnecting, logs, toasts, executionInterval, isRunning, timers,
              nextTimer, runs, connectPc, sessionNo>>

vars == <<hasProvider, longTradeContract, shortTradeContract, isConnected,
          isConnecting, logs, toasts, executionInterval, isRunning, timers,
          nextTimer, runs, connectPc, sessionNo, lastOp>>

\* Bound of the model: no operation runs that would take the log or the
\* notification list beyond this many entries.
MaxLog == 9

\* JavaScript null / undefined for a state cell holding an id.
Null == 0

\* BSC_MAINNET_CONFIG.chainId, used only as an equality and switch target.
BscChainId == "BSC_MAINNET_CONFIG.chainId"

----------------------------------------------------------------------------
(* Log / notification sink *)

\* new Date().toLocaleTimeString()
Timestamp == "toLocaleTimeString()"

\* Mutant: the new entry is put in front of the earlier ones.
addLogPrepends(prev, message) == <<(<<Timestamp, ": ">> \o message)>> \o prev

\* Mutant: the new entry replaces the earlier ones.
addLogReplaces(prev, message) == <<(<<Timestamp, ": ">> \o message)>>

\* addLog: setLogs((prev) => [...prev, `${timestamp}: ${message}`])
addLog(prev, message) == Append(prev, <<Timestamp, ": ">> \o message)

\* The message part of a log entry.
MessageOf(entry) == SubSeq(entry, 3, Len(entry))

\* toast.error / toast.success / toast.info / toast(...)
toast(prev, kind, message) == Append(prev, [kind |-> kind, text |-> message])

\* String.prototype.includes at token granularity.
Includes(text, token) == \E i \in 1..Len(text) : text[i] = token

----------------------------------------------------------------------------
(* Error sanitizer *)

\* Tokens the three regular expressions look for, and the line terminator
\* that (.*) does not cross.
SigMarker == "MetaMask Tx Signature: "
DeniedMarker == "ethers-user-denied: "
RevertMarker == "execution reverted: "
Newline == "\n"

\* Index of the first occurrence of a token, 0 when there is none
\* (where a regex without the g flag matches).
FirstIndex(text, token) ==
    IF Includes(text, token)
    THEN CHOOSE i \in 1..Len(text) :
            text[i] = token /\ \A j \in 1..(i - 1) : text[j] # token
    ELSE 0

\* First index >= i holding a line terminator, Len(text)+1 when none: where
\* a (.*) group starting at i ends.
LineEnd(text, i) ==
    IF \E j \in i..Len(text) : text[j] = Newline
    THEN CHOOSE j \in i..Len(text) :
            text[j] = Newline /\ \A k \in i..(j - 1) : text[k] # Newline
    ELSE Len(text) + 1

\* message.replace(/marker(.*)/, replacement): the text before the match and
\* the text after it are kept; keepGroup is the '$1' of the replacement.
RegexReplace(text, token, replacement, keepGroup) ==
    LET i == FirstIndex(text, token)
        e == LineEnd(text, i + 1)
    IN  SubSeq(text, 1, i - 1) \o replacement
          \o (IF keepGroup THEN SubSeq(text, i + 1, e - 1) ELSE <<>>)
          \o SubSeq(text, e, Len(text))

sanitizeErrorMessage(message) ==
    IF Includes(message, SigMarker)
    THEN RegexReplace(message, SigMarker, <<>>, TRUE)
    ELSE IF Includes(message, DeniedMarker)
    THEN RegexReplace(message, DeniedMarker, <<"Action cancelled">>, FALSE)
    ELSE IF Includes(message, RevertMarker)
    THEN RegexReplace(message, RevertMarker, <<"Transaction failed: ">>, TRUE)
    ELSE <<"Transaction failed">>

----------------------------------------------------------------------------
(* Errors thrown across the wallet and contract boundaries.  An absent     *)
(* code is 0 and an absent string is the empty text: both are falsy in the *)
(* tests the handlers make.                                                *)

Err(isObject, code, reason, message, nested) ==
    [isObject |-> isObject, code |-> code, reason |-> reason,
     message |-> message, nested |-> nested]

\* new Error(text)
NewError(text) == Err(TRUE, 0, <<>>, text, <<>>)

\* Rejections of window.ethereum.request drawn by the model.
RpcErrors ==
    { Err(TRUE, 4902, <<>>, <<"Unrecognized chain ID">>, <<>>),
      Err(TRUE, 4001, <<>>, <<"User rejected the request.">>, <<>>),
      Err(TRUE, -32002, <<>>, <<"Request ", "already pending">>, <<>>) }

\* Rejections of initiateFlashLoan drawn by the model.
ExecErrors ==
    { Err(TRUE, 4001, <<>>, <<"User rejected the request.">>, <<>>),
      Err(TRUE, 0, <<>>, <<"missing revert data">>,
          <<RevertMarker, "insufficient funds">>) }

\* connectWallet's catch block: the message logged and notified.
connectErrorMessage(error) ==
    IF error.isObject
    THEN IF error.code = 4001
         THEN <<"Connection rejected by user">>
         ELSE IF Includes(error.message, "user rejected request")
         THEN <<"Connection rejected by user">>
         ELSE IF Includes(error.message, "already pending")
         THEN <<"A request is already pending. Please check MetaMask.">>
         ELSE <<"Error connecting wallet">>
    ELSE <<"Error connecting wallet">>

\* Mutant: the message test comes before the code and reason test.
executionUserMessageDeniedFirst(error) ==
    IF error.isObject
    THEN IF Includes(error.message, "user denied transaction")
         THEN <<"You denied the transaction">>
         ELSE IF error.code = 4001 \/ error.reason = <<"rejected">>
         THEN <<"You rejected the transaction">>
         ELSE IF error.nested # <<>>
         THEN sanitizeErrorMessage(error.nested)
         ELSE <<"Transaction was rejected">>
    ELSE <<"Transaction was rejected">>

\* executeContracts' catch block: the message logged and notified.
executionUserMessage(error) ==
    IF error.isObject
    THEN IF error.code = 4001 \/ error.reason = <<"rejected">>
         THEN <<"You rejected the transaction">>
         ELSE IF Includes(error.message, "user denied transaction")
         THEN <<"You denied the transaction">>
         ELSE IF error.nested # <<>>
         THEN sanitizeErrorMessage(error.nested)
         ELSE <<"Transaction was rejected">>
    ELSE <<"Transaction was rejected">>

\* The two contract cells as one render sees them.
Bindings(long, short) == [long |-> long, short |-> short]

\* The browser's timer table with no timer armed.
NoTimers == [t \in {} |-> Bindings(Null, Null)]

----------------------------------------------------------------------------
(* Operation records (history only: which handler ran, on which input) *)

NoError == Err(FALSE, 0, <<>>, <<>>, <<>>)

Op(name, n, ok, text, error) ==
    [op |-> name, n |-> n, ok |-> ok, text |-> text, err |-> error]

\* A handler without input; n is 1 when the operation before it was the
\* same handler.
Did(name) == Op(name, IF lastOp.op = name THEN 1 ELSE 0, TRUE, <<>>, NoError)

----------------------------------------------------------------------------
(* State after construction: useState initial values, no timer, no request *)

Init ==
    /\ hasProvider \in BOOLEAN
    /\ longTradeContract = Null
    /\ shortTradeContract = Null
    /\ isConnected = FALSE
    /\ isConnecting = FALSE
    /\ logs = <<>>
    /\ toasts = <<>>
    /\ executionInterval = Null
    /\ isRunning = FALSE
    /\ timers = NoTimers
    /\ nextTimer = 1
    /\ runs = <<>>
    /\ connectPc = "idle"
    /\ sessionNo = 0
    /\ lastOp = Op("init", 0, TRUE, <<>>, NoError)

\* The model's cap on the log and on the notification list.
WithinBounds == Len(logs') <= MaxLog /\ Len(toasts') <= MaxLog

Record(op) == lastOp' = op

----------------------------------------------------------------------------
(* Wallet Session Manager and Network Guard: connectWallet *)

\* Chain ids eth_chainId may answer, and account lists eth_requestAccounts
\* may answer.
ChainIds == { BscChainId, "0x1" }
AccountLists == { <<>>, <<"0xA11CE">>, <<"0xA11CE", "0xB0B">> }

\* Mutant: the catch block without the finally block.
ConnectFailsKeepsConnecting(error, L) ==
    /\ logs' = addLog(L, <<"Connection error: ">> \o connectErrorMessage(error))
    /\ toasts' = toast(toasts, "error", connectErrorMessage(error))
    /\ isConnecting' = isConnecting
    /\ connectPc' = "idle"
    /\ UNCHANGED <<longTradeContract, shortTradeContract, isConnected, sessionNo>>

\* Mutant: the catch block marks the session disconnected.
ConnectFailsDisconnects(error, L) ==
    /\ logs' = addLog(L, <<"Connection error: ">> \o connectErrorMessage(error))
    /\ toasts' = toast(toasts, "error", connectErrorMessage(error))
    /\ isConnecting' = FALSE
    /\ connectPc' = "idle"
    /\ isConnected' = FALSE
    /\ UNCHANGED <<longTradeContract, shortTradeContract, sessionNo>>

\* The catch and finally blocks of connectWallet.
ConnectFails(error, L) ==
    /\ logs' = addLog(L, <<"Connection error: ">> \o connectErrorMessage(error))
    /\ toasts' = toast(toasts, "error", connectErrorMessage(error))
    /\ isConnecting' = FALSE
    /\ connectPc' = "idle"
    /\ UNCHANGED <<longTradeContract, shortTradeContract, isConnected, sessionNo>>

\* connectWallet suspends on the next request.
ConnectAwaits(request, L) ==
    /\ logs' = L
    /\ connectPc' = request
    /\ UNCHANGED <<toasts, isConnecting, longTradeContract, shortTradeContract,
                   isConnected, sessionNo>>

\* Mutant: every switch failure is answered by an add-chain request.
onSwitchErrorAlwaysAdds(error) == "add"

\* What the catch of the chain switch does with the switch error:
\* "add" to request wallet_addEthereumChain, "throw" to rethrow it.
onSwitchError(error) == IF error.code = 4902 THEN "add" ELSE "throw"

\* connectWallet up to its first await.
Connect ==
    /\ connectPc = "idle"
    /\ IF ~hasProvider
       THEN /\ toasts' = toast(toasts, "error",
                               <<"MetaMask not detected. Please install MetaMask.">>)
            /\ UNCHANGED <<isConnecting, logs, connectPc>>
       ELSE /\ isConnecting' = TRUE
            /\ logs' = addLog(logs, <<"Attempting to connect wallet...">>)
            /\ connectPc' = "eth_chainId"
            /\ UNCHANGED toasts
    /\ UNCHANGED <<hasProvider, longTradeContract, shortTradeContract, isConnected,
                   executionInterval, isRunning, timers, nextTimer, runs, sessionNo>>
    /\ Record(Did("connect"))

\* eth_chainId settles.
ChainIdResponds ==
    /\ connectPc = "eth_chainId"
    /\ \/ \E chainId \in ChainIds :
            /\ LET L == addLog(logs, <<"Current chain ID: ", chainId>>)
               IN  IF chainId # BscChainId
                   THEN ConnectAwaits("wallet_switchEthereumChain",
                            addLog(L, <<"Switching to Binance Smart Chain...">>))
                   ELSE ConnectAwaits("eth_requestAccounts",
                            addLog(L, <<"Requesting accounts...">>))
            /\ Record(Op("eth_chainId", 0, TRUE, <<chainId>>, NoError))
       \/ \E error \in RpcErrors :
            /\ ConnectFails(error, logs)
            /\ Record(Op("eth_chainId", 0, FALSE, <<>>, error))
    /\ UNCHANGED <<hasProvider, executionInterval, isRunning, timers, nextTimer, runs>>

\* wallet_switchEthereumChain settles.
SwitchResponds ==
    /\ connectPc = "wallet_switchEthereumChain"
    /\ \/ /\ ConnectAwaits("eth_requestAccounts",
               addLog(addLog(logs, <<"Successfully switched to Binance Smart Chain">>),
                      <<"Requesting accounts...">>))
          /\ Record(Op("wallet_switchEthereumChain", 0, TRUE, <<>>, NoError))
       \/ \E error \in RpcErrors :
            /\ IF onSwitchError(error) = "add"
               THEN ConnectAwaits("wallet_addEthereumChain",
                        addLog(logs, <<"Adding Binance Smart Chain to MetaMask...">>))
               ELSE ConnectFails(error,
                        addLog(logs, <<"Chain switch error: ">> \o error.message))
            /\ Record(Op("wallet_switchEthereumChain", 0, FALSE, <<>>, error))
    /\ UNCHANGED <<hasProvider, executionInterval, isRunning, timers, nextTimer, runs>>

\* wallet_addEthereumChain settles.
AddResponds ==
    /\ connectPc = "wallet_addEthereumChain"
    /\ \/ /\ ConnectAwaits("eth_requestAccounts",
               addLog(addLog(logs, <<"Successfully added Binance Smart Chain">>),
                      <<"Requesting accounts...">>))
          /\ Record(Op("wallet_addEthereumChain", 0, TRUE, <<>>, NoError))
       \/ \E error \in RpcErrors :
            /\ ConnectFails(NewError(<<"Failed to add Binance Smart Chain to MetaMask">>),
                            addLog(logs, <<"Failed to add Binance Smart Chain">>))
            /\ Record(Op("wallet_addEthereumChain", 0, FALSE, <<>>, error))
    /\ UNCHANGED <<hasProvider, executionInterval, isRunning, timers, nextTimer, runs>>

\* eth_requestAccounts settles.
AccountsResponds ==
    /\ connectPc = "eth_requestAccounts"
    /\ \/ \E accounts \in AccountLists :
            /\ IF Len(accounts) = 0
               THEN ConnectFails(NewError(<<"No accounts found">>), logs)
               ELSE ConnectAwaits("getSigner",
                        addLog(logs, <<"Connected account: ", accounts[1]>>))
            /\ Record(Op("eth_requestAccounts", 0, TRUE, accounts, NoError))
       \/ \E error \in RpcErrors :
            /\ ConnectFails(error, logs)
            /\ Record(Op("eth_requestAccounts", 0, FALSE, <<>>, error))
    /\ UNCHANGED <<hasProvider, executionInterval, isRunning, timers, nextTimer, runs>>

\* web3Provider.getSigner() settles; on success both contracts are bound to
\* the new signer and the session becomes connected.
SignerResponds ==
    /\ connectPc = "getSigner"
    /\ \/ /\ sessionNo' = sessionNo + 1
          /\ longTradeContract' = sessionNo + 1
          /\ shortTradeContract' = sessionNo + 1
          /\ isConnected' = TRUE
          /\ logs' = addLog(logs, <<"Wallet connected successfully">>)
          /\ toasts' = toast(toasts, "success", <<"Wallet connected to BSC successfully">>)
          /\ isConnecting' = FALSE
          /\ connectPc' = "idle"
          /\ Record(Op("getSigner", 0, TRUE, <<>>, NoError))
       \/ \E error \in RpcErrors :
            /\ ConnectFails(error, logs)
            /\ Record(Op("getSigner", 0, FALSE, <<>>, error))
    /\ UNCHANGED <<hasProvider, executionInterval, isRunning, timers, nextTimer, runs>>

----------------------------------------------------------------------------
(* Dispatcher: executeContracts *)

\* A Dispatcher invocation past its precondition: the two initiateFlashLoan
\* promises and whether `await Promise.all([tx1, tx2])` is still suspended.
NewRun(c) ==
    [long |-> c.long, short |-> c.short,
     tx1 |-> "pending", tx2 |-> "pending", awaiting |-> TRUE]

\* Mutant: the Dispatcher does not mark the execution as running.
executeContractsNoFlag(c, L, T, R, Q) ==
    IF c.long = Null \/ c.short = Null
    THEN [logs |-> addLog(L, <<"Error: Contracts not initialized">>),
          toasts |-> toast(T, "error",
                     <<"Contracts not initialized. Please connect wallet first.">>),
          isRunning |-> R,
          runs |-> Q]
    ELSE [logs |-> addLog(L, <<"Executing contracts...">>),
          toasts |-> T,
          isRunning |-> R,
          runs |-> Append(Q, NewRun(c))]

\* executeContracts up to its await, run by a handler whose render saw the
\* bindings c; L, T, R, Q are the log, notifications, running flag and
\* in-flight runs it acts on.
executeContracts(c, L, T, R, Q) ==
    IF c.long = Null \/ c.short = Null
    THEN [logs |-> addLog(L, <<"Error: Contracts not initialized">>),
          toasts |-> toast(T, "error",
                     <<"Contracts not initialized. Please connect wallet first.">>),
          isRunning |-> R,
          runs |-> Q]
    ELSE [logs |-> addLog(L, <<"Executing contracts...">>),
          toasts |-> T,
          isRunning |-> TRUE,
          runs |-> Append(Q, NewRun(c))]

\* Mutant: the join settles with the first call that settles.
promiseAllSettlesOnFirst(run, call, ok) == run.awaiting

\* Promise.all([tx1, tx2]) settles, and the suspended executeContracts
\* resumes, when this settlement is a rejection or leaves both resolved.
promiseAllSettles(run, call, ok) ==
    /\ run.awaiting
    /\ \/ ~ok
       \/ [run EXCEPT ![call] = "resolved"].tx1 = "resolved"
          /\ [run EXCEPT ![call] = "resolved"].tx2 = "resolved"

\* Mutant: the running flag is reset on the success path only.
executeFinishedLeavesRunning(ok, error, L, T, R) ==
    IF ok
    THEN [logs |-> addLog(L, <<"Flash loans initiated successfully!">>),
          toasts |-> toast(T, "success", <<"Flash loans initiated successfully on BSC!">>),
          isRunning |-> FALSE]
    ELSE [logs |-> addLog(L, <<"Execution error: ">> \o executionUserMessage(error)),
          toasts |-> toast(T, "error", executionUserMessage(error)),
          isRunning |-> R]

\* executeContracts after its await: the success path or the catch block,
\* then the finally block.
executeFinished(ok, error, L, T, R) ==
    IF ok
    THEN [logs |-> addLog(L, <<"Flash loans initiated successfully!">>),
          toasts |-> toast(T, "success", <<"Flash loans initiated successfully on BSC!">>),
          isRunning |-> FALSE]
    ELSE [logs |-> addLog(L, <<"Execution error: ">> \o executionUserMessage(error)),
          toasts |-> toast(T, "error", executionUserMessage(error)),
          isRunning |-> FALSE]

\* Runs with nothing outstanding are dropped.
Outstanding(run) == run.awaiting \/ run.tx1 = "pending" \/ run.tx2 = "pending"
Retire(Q) == SelectSeq(Q, Outstanding)

\* Mutant: the catch block also stops the Scheduler.
SettleCallStopsOnFailure ==
    \E i \in 1..Len(runs), call \in {"tx1", "tx2"},
       outcome \in {NoError} \cup ExecErrors :
        LET run == runs[i]
            ok == outcome = NoError
            joins == promiseAllSettles(run, call, ok)
            settled == [run EXCEPT ![call] = IF ok THEN "resolved" ELSE "rejected",
                                   !.awaiting = run.awaiting /\ ~joins]
            fin == executeFinished(ok, outcome, logs, toasts, isRunning)
        IN  /\ run[call] = "pending"
            /\ runs' = Retire([runs EXCEPT ![i] = settled])
            /\ IF joins
               THEN /\ logs' = fin.logs
                    /\ toasts' = fin.toasts
                    /\ isRunning' = fin.isRunning
               ELSE UNCHANGED <<logs, toasts, isRunning>>
            /\ IF joins /\ ~ok
               THEN /\ timers' = [t \in DOMAIN timers \ {executionInterval} |-> timers[t]]
                    /\ executionInterval' = Null
               ELSE UNCHANGED <<executionInterval, timers>>
            /\ UNCHANGED <<hasProvider, longTradeContract, shortTradeContract,
                           isConnected, isConnecting, nextTimer, connectPc, sessionNo>>
            /\ Record(Op("settle", i, ok, <<call>>, outcome))

\* One initiateFlashLoan promise settles; the continuation of its
\* executeContracts runs in the same turn when Promise.all settles.
SettleCall ==
    \E i \in 1..Len(runs), call \in {"tx1", "tx2"},
       outcome \in {NoError} \cup ExecErrors :
        LET run == runs[i]
            ok == outcome = NoError
            joins == promiseAllSettles(run, call, ok)
            settled == [run EXCEPT ![call] = IF ok THEN "resolved" ELSE "rejected",
                                   !.awaiting = run.awaiting /\ ~joins]
            fin == executeFinished(ok, outcome, logs, toasts, isRunning)
        IN  /\ run[call] = "pending"
            /\ runs' = Retire([runs EXCEPT ![i] = settled])
            /\ IF joins
               THEN /\ logs' = fin.logs
                    /\ toasts' = fin.toasts
                    /\ isRunning' = fin.isRunning
               ELSE UNCHANGED <<logs, toasts, isRunning>>
            /\ UNCHANGED <<hasProvider, longTradeContract, shortTradeContract,
                           isConnected, isConnecting, executionInterval, timers,
                           nextTimer, connectPc, sessionNo>>
            /\ Record(Op("settle", i, ok, <<call>>, outcome))
        
----------------------------------------------------------------------------
(* Scheduler: startIntervalExecution, stopExecution, runOnce and the timer *)

\* Mutant: clearInterval leaves the timer armed.
clearIntervalKeeps(live, id) == live

\* clearInterval(id) on the browser's timer table.
clearInterval(live, id) == [t \in DOMAIN live \ {id} |-> live[t]]

\* setInterval(callback, 3000) returning id; the callback closed over c.
setInterval(live, id, c) ==
    [t \in DOMAIN live \cup {id} |-> IF t = id THEN c ELSE live[t]]

\* Cleanup of the effect keyed on executionInterval, run when the cell
\* changes: clears the handle of the previous render.
intervalEffectCleanup(live, old) == clearInterval(live, old)

\* Mutant: the handle held so far is left armed.
timersAfterStartNoCancel(live, old, new, c) == setInterval(live, new, c)

\* The timer table after startIntervalExecution and the commit of its state
\* update: the handle held so far is cancelled, the new timer is armed.
timersAfterStart(live, old, new, c) ==
    intervalEffectCleanup(setInterval(clearInterval(live, old), new, c), old)

\* Mutant: stopExecution without its guard.
stopActsAlways(handle) == TRUE

\* stopExecution acts only when a handle is held.
stopActs(handle) == handle # Null

\* Mutant: stopExecution forgets the handle without cancelling the timer.
timersAfterStopLeaks(live, old) == live

\* The timer table after stopExecution and the commit of its state update.
timersAfterStop(live, old) == intervalEffectCleanup(clearInterval(live, old), old)

\* The running flag as stopExecution leaves it.
runningAfterStop(R) == FALSE

Start ==
    LET c == Bindings(longTradeContract, shortTradeContract)
        r == executeContracts(c,
                 addLog(logs, <<"Starting interval execution (every 3 seconds)">>),
                 toasts, isRunning, runs)
    IN  /\ logs' = r.logs
        /\ toasts' = r.toasts
        /\ isRunning' = r.isRunning
        /\ runs' = r.runs
        /\ timers' = timersAfterStart(timers, executionInterval, nextTimer, c)
        /\ executionInterval' = nextTimer
        /\ nextTimer' = nextTimer + 1
        /\ UNCHANGED <<hasProvider, longTradeContract, shortTradeContract,
                       isConnected, isConnecting, connectPc, sessionNo>>
        /\ Record(Did("start"))
    
Stop ==
    /\ IF stopActs(executionInterval)
       THEN /\ isRunning' = runningAfterStop(isRunning)
            /\ timers' = timersAfterStop(timers, executionInterval)
            /\ executionInterval' = Null
            /\ logs' = addLog(logs, <<"Execution stopped">>)
            /\ toasts' = toast(toasts, "plain", <<"Execution stopped">>)
       ELSE UNCHANGED <<isRunning, timers, executionInterval, logs, toasts>>
    /\ UNCHANGED <<hasProvider, longTradeContract, shortTradeContract, isConnected,
                   isConnecting, nextTimer, runs, connectPc, sessionNo>>
    /\ Record(Did("stop"))

\* Mutant: runOnce also cancels the interval timer.
RunOnceCancelsTimer ==
    LET r == executeContracts(Bindings(longTradeContract, shortTradeContract),
                 addLog(logs, <<"Executing contracts once">>),
                 toast(toasts, "plain", <<"Executing contracts once">>),
                 isRunning, runs)
    IN  /\ logs' = r.logs
        /\ toasts' = r.toasts
        /\ isRunning' = r.isRunning
        /\ runs' = r.runs
        /\ timers' = clearInterval(timers, executionInterval)
        /\ executionInterval' = Null
        /\ UNCHANGED <<hasProvider, longTradeContract, shortTradeContract,
                       isConnected, isConnecting, nextTimer, connectPc, sessionNo>>
        /\ Record(Did("runOnce"))

RunOnce ==
    LET r == executeContracts(Bindings(longTradeContract, shortTradeContract),
                 addLog(logs, <<"Executing contracts once">>),
                 toast(toasts, "plain", <<"Executing contracts once">>),
                 isRunning, runs)
    IN  /\ logs' = r.logs
        /\ toasts' = r.toasts
        /\ isRunning' = r.isRunning
        /\ runs' = r.runs
        /\ UNCHANGED <<hasProvider, longTradeContract, shortTradeContract,
                       isConnected, isConnecting, executionInterval, timers,
                       nextTimer, connectPc, sessionNo>>
        /\ Record(Did("runOnce"))
    
\* A live timer fires: its callback calls the executeContracts of the render
\* in which startIntervalExecution armed it.
TimerFires ==
    \E id \in DOMAIN timers :
        LET r == executeContracts(timers[id], logs, toasts, isRunning, runs)
        IN  /\ logs' = r.logs
            /\ toasts' = r.toasts
            /\ isRunning' = r.isRunning
            /\ runs' = r.runs
            /\ UNCHANGED <<hasProvider, longTradeContract, shortTradeContract,
                           isConnected, isConnecting, executionInterval, timers,
                           nextTimer, connectPc, sessionNo>>
            /\ Record(Op("timer", id, TRUE, <<>>, NoError))
        
----------------------------------------------------------------------------
(* Wallet notifications; the handlers are registered by the effect keyed   *)
(* on isConnected, only while window.ethereum exists and isConnected       *)

\* Mutant: the handlers stay registered whatever isConnected is.
SubscribedAlways == hasProvider

Subscribed == hasProvider /\ isConnected

\* Mutant: handleAccountsChanged resets the session on any list.
accountsGoneAlways(accounts) == TRUE

\* handleAccountsChanged resets the session on this list.
accountsGone(accounts) == Len(accounts) = 0

AccountsChanged ==
    \E accounts \in AccountLists :
        /\ hasProvider
        /\ IF Subscribed /\ accountsGone(accounts)
           THEN /\ isConnected' = FALSE
                /\ longTradeContract' = Null
                /\ shortTradeContract' = Null
                /\ logs' = addLog(logs, <<"Wallet disconnected">>)
                /\ toasts' = toast(toasts, "info", <<"Wallet disconnected">>)
           ELSE UNCHANGED <<isConnected, longTradeContract, shortTradeContract,
                            logs, toasts>>
        /\ UNCHANGED <<hasProvider, isConnecting, executionInterval, isRunning,
                       timers, nextTimer, runs, connectPc, sessionNo>>
        /\ Record(Op("accountsChanged", 0, TRUE, accounts, NoError))
    
\* Mutant: the timers of the page survive the reload.
ChainChangedKeepsTimers ==
    \E chainId \in ChainIds :
        /\ hasProvider
        /\ IF Subscribed
           THEN /\ longTradeContract' = Null
                /\ shortTradeContract' = Null
                /\ isConnected' = FALSE
                /\ isConnecting' = FALSE
                /\ logs' = <<>>
                /\ toasts' = <<>>
                /\ executionInterval' = Null
                /\ isRunning' = FALSE
                /\ timers' = timers
                /\ nextTimer' = 1
                /\ runs' = <<>>
                /\ connectPc' = "idle"
                /\ sessionNo' = 0
           ELSE UNCHANGED <<longTradeContract, shortTradeContract, isConnected,
                            isConnecting, logs, toasts, executionInterval,
                            isRunning, timers, nextTimer, runs, connectPc, sessionNo>>
        /\ UNCHANGED hasProvider
        /\ Record(Op("chainChanged", executionInterval, Subscribed, <<chainId>>, NoError))

\* handleChainChanged: the log entry is lost with everything else in
\* window.location.reload(), which constructs the component anew.  The
\* record keeps the timer handle held at delivery and whether the handler
\* was subscribed.
ChainChanged ==
    \E chainId \in ChainIds :
        /\ hasProvider
        /\ IF Subscribed
           THEN /\ longTradeContract' = Null
                /\ shortTradeContract' = Null
                /\ isConnected' = FALSE
                /\ isConnecting' = FALSE
                /\ logs' = <<>>
                /\ toasts' = <<>>
                /\ executionInterval' = Null
                /\ isRunning' = FALSE
                /\ timers' = NoTimers
                /\ nextTimer' = 1
                /\ runs' = <<>>
                /\ connectPc' = "idle"
                /\ sessionNo' = 0
           ELSE UNCHANGED <<longTradeContract, shortTradeContract, isConnected,
                            isConnecting, logs, toasts, executionInterval,
                            isRunning, timers, nextTimer, runs, connectPc, sessionNo>>
        /\ UNCHANGED hasProvider
        /\ Record(Op("chainChanged", executionInterval, Subscribed, <<chainId>>, NoError))

----------------------------------------------------------------------------
(* Specifications *)

\* The handlers invoked in any state, as a script or test harness holding
\* the handlers of the current render would.
Next ==
    \/ Connect /\ WithinBounds
    \/ ChainIdResponds /\ WithinBounds
    \/ SwitchResponds /\ WithinBounds
    \/ AddResponds /\ WithinBounds
    \/ AccountsResponds /\ WithinBounds
    \/ SignerResponds /\ WithinBounds
    \/ Start /\ WithinBounds
    \/ Stop /\ WithinBounds
    \/ RunOnce /\ WithinBounds
    \/ TimerFires /\ WithinBounds
    \/ SettleCall /\ WithinBounds
    \/ AccountsChanged /\ WithinBounds
    \/ ChainChanged /\ WithinBounds

Spec == Init /\ [][Next]_vars

\* The controls as rendered: the Connect button exists while disconnected
\* and is disabled while connecting; Start, Stop and Run Once exist while
\* connected, Start disabled while running and Stop disabled while not.
ConnectEnabled == ~isConnected /\ ~isConnecting
StartEnabled == isConnected /\ ~isRunning
StopEnabled == isConnected /\ isRunning
RunOnceEnabled == isConnected

\* The handlers invoked by clicks on enabled controls only.
NextUI ==
    \/ ConnectEnabled /\ Connect /\ WithinBounds
    \/ ChainIdResponds /\ WithinBounds
    \/ SwitchResponds /\ WithinBounds
    \/ AddResponds /\ WithinBounds
    \/ AccountsResponds /\ WithinBounds
    \/ SignerResponds /\ WithinBounds
    \/ StartEnabled /\ Start /\ WithinBounds
    \/ StopEnabled /\ Stop /\ WithinBounds
    \/ RunOnceEnabled /\ RunOnce /\ WithinBounds
    \/ TimerFires /\ WithinBounds
    \/ SettleCall /\ WithinBounds
    \/ AccountsChanged /\ WithinBounds
    \/ ChainChanged /\ WithinBounds

SpecUI == Init /\ [][NextUI]_vars

\* The end-to-end scenario: connect() succeeding (through whichever chain
\* path), then start(), whose immediate Dispatcher run succeeds, then one
\* timer firing whose run succeeds, then stop().  Notifications carrying
\* accounts may arrive at any time.
ScenarioRuns == Len(SelectSeq(logs, LAMBDA e : MessageOf(e) = <<"Executing contracts...">>))
ScenarioSuccesses ==
    Len(SelectSeq(logs, LAMBDA e : MessageOf(e) = <<"Flash loans initiated successfully!">>))

NextE2E ==
    \/ Connect /\ hasProvider /\ logs = <<>>
    \/ ChainIdResponds /\ lastOp'.ok
    \/ SwitchResponds /\ (lastOp'.ok \/ lastOp'.err.code = 4902)
    \/ AddResponds /\ lastOp'.ok
    \/ AccountsResponds /\ lastOp'.ok /\ lastOp'.text # <<>>
    \/ SignerResponds /\ lastOp'.ok
    \/ Start /\ isConnected /\ nextTimer = 1
    \/ SettleCall /\ lastOp'.ok
    \/ TimerFires /\ runs = <<>> /\ ScenarioRuns = 1
    \/ Stop /\ executionInterval # Null /\ runs = <<>> /\ ScenarioSuccesses = 2
    \/ AccountsChanged /\ lastOp'.text # <<>>

SpecE2E == Init /\ [][NextE2E]_vars

----------------------------------------------------------------------------
(* The sanitizer and the Dispatcher's catch block over the errors a        *)
(* contract call can throw                                                 *)

\* Longest provider message drawn.
MaxMessage == 3

\* Provider messages: texts over the three markers, the line terminator and
\* one other word.
MessageTokens == { SigMarker, DeniedMarker, RevertMarker, Newline, "foo" }
Texts(n) == UNION { [1..k -> MessageTokens] : k \in 0..n }

\* What initiateFlashLoan may reject with: a non-object, or an object with or
\* without code, reason, message and info.error.message.
ThrownErrors ==
    { Err(FALSE, 0, <<>>, <<>>, <<>>) } \cup
    { Err(TRUE, code, reason, message, nested) :
        code \in {0, 4001, -32603},
        reason \in {<<>>, <<"rejected">>},
        message \in {<<>>, <<"MetaMask: ", "user denied transaction">>},
        nested \in Texts(MaxMessage) }

\* A connected session (chain already BSC) whose runOnce() Dispatcher run is
\* suspended on its join, and the error its first call is about to throw.
InitErrors ==
    LET connected ==
            addLog(addLog(addLog(addLog(addLog(<<>>,
                <<"Attempting to connect wallet...">>),
                <<"Current chain ID: ", BscChainId>>),
                <<"Requesting accounts...">>),
                <<"Connected account: ", "0xA11CE">>),
                <<"Wallet connected successfully">>)
        r == executeContracts(Bindings(1, 1),
                 addLog(connected, <<"Executing contracts once">>),
                 toast(toast(<<>>, "success", <<"Wallet connected to BSC successfully">>),
                       "plain", <<"Executing contracts once">>),
                 FALSE, <<>>)
    IN  /\ hasProvider = TRUE
        /\ longTradeContract = 1
        /\ shortTradeContract = 1
        /\ isConnected = TRUE
        /\ isConnecting = FALSE
        /\ logs = r.logs
        /\ toasts = r.toasts
        /\ executionInterval = Null
        /\ isRunning = r.isRunning
        /\ timers = NoTimers
        /\ nextTimer = 1
        /\ runs = r.runs
        /\ connectPc = "idle"
        /\ sessionNo = 1
        /\ \E error \in ThrownErrors : lastOp = Op("throw", 1, FALSE, <<"tx1">>, error)

\* sanitizeErrorMessage applied to the provider message of the error.
Sanitizes ==
    /\ lastOp.op = "throw"
    /\ UNCHANGED progVars
    /\ Record(Op("sanitize", 0, TRUE, sanitizeErrorMessage(lastOp.err.nested), lastOp.err))

\* The first call rejects with the error: Promise.all rejects, and the catch
\* and finally blocks run.
Catches ==
    LET fin == executeFinished(FALSE, lastOp.err, logs, toasts, isRunning)
    IN  /\ lastOp.op = "throw"
        /\ promiseAllSettles(runs[1], "tx1", FALSE)
        /\ runs' = Retire([runs EXCEPT ![1] = [@ EXCEPT !.tx1 = "rejected",
                                                        !.awaiting = FALSE]])
        /\ logs' = fin.logs
        /\ toasts' = fin.toasts
        /\ isRunning' = fin.isRunning
        /\ UNCHANGED <<hasProvider, longTradeContract, shortTradeContract,
                       isConnected, isConnecting, executionInterval, timers,
                       nextTimer, connectPc, sessionNo>>
        /\ Record(Op("settle", 1, FALSE, <<"tx1">>, lastOp.err))

NextErrors ==
    \/ Sanitizes
    \/ Catches

SpecErrors == InitErrors /\ [][NextErrors]_vars

----------------------------------------------------------------------------
(* Helpers of the properties *)

LastMessage(L) == IF Len(L) = 0 THEN <<>> ELSE MessageOf(L[Len(L)])

CountMessage(L, message) ==
    Cardinality({i \in 1..Len(L) : MessageOf(L[i]) = message})

\* The step is an invocation of the named handler.
Ran(name) == lastOp'.op = name

\* The step invokes executeContracts (from start, runOnce or a timer).
Dispatches == Ran("start") \/ Ran("runOnce") \/ Ran("timer")

\* The step resumes a suspended executeContracts and runs it to its end.
RunExits ==
    /\ Ran("settle")
    /\ lastOp'.n \in 1..Len(runs)
    /\ runs[lastOp'.n].awaiting
    /\ \/ Len(runs') < Len(runs)
       \/ ~runs'[lastOp'.n].awaiting

NoRunAwaiting == \A i \in 1..Len(runs) : ~runs[i].awaiting

----------------------------------------------------------------------------
(* Properties *)

\* C1: after every prefix of start/stop/runOnce calls, timer firings and
\* Dispatcher completions at most one repeating timer is live, and it is the
\* one the handle names: a start() issued while a timer exists cancels that
\* timer, so no earlier timer can still fire.
C1_AtMostOneLiveTimer ==
    /\ Cardinality(DOMAIN timers) <= 1
    /\ \A id \in DOMAIN timers : id = executionInterval

\* start() directly after start(): the second was issued while the timer of
\* the first existed.
C1_Witness_Restart ==
    /\ lastOp.op = "start"
    /\ lastOp.n = 1
    /\ executionInterval >= 2
    /\ DOMAIN timers = {executionInterval}

\* C2: in every reachable state the timer handle is present only while
\* running is true.
C2_TimerOnlyWhileRunning == executionInterval # Null => isRunning

\* C3: whenever executeContracts is invoked (by start, runOnce or a timer
\* firing) while either contract binding is absent from the Session, it
\* appends "Contracts not initialized", invokes initiateFlashLoan on no
\* binding and leaves running unchanged (and, outside start, the timer
\* handle).
C3_AbsentBindingsNeverDispatch ==
    [][ (Dispatches /\ (longTradeContract = Null \/ shortTradeContract = Null))
        => /\ LastMessage(logs') = <<"Error: Contracts not initialized">>
           /\ runs' = runs
           /\ isRunning' = isRunning
           /\ (~Ran("start") => UNCHANGED <<executionInterval, timers>>) ]_vars

\* C4: every Dispatcher run that passed the binding precondition resets
\* running to false when it exits, on the success path and on every failure
\* path.
C4_RunningResetOnExit == [][ RunExits => ~isRunning' ]_vars

\* A run has exited through the catch block and running is false.
C4_Witness_FailedExit ==
    /\ lastOp.op = "settle"
    /\ ~lastOp.ok
    /\ LastMessage(logs) = <<"Execution error: ">> \o executionUserMessage(lastOp.err)
    /\ ~isRunning

\* C5: stop() with no timer is a no-op; stop() directly after stop() leaves
\* the timer handle, running, the log and everything else as the first stop
\* left them.
C5_StopWithoutTimerIsNoOp ==
    [][ (Ran("stop") /\ (executionInterval = Null \/ lastOp.op = "stop"))
        => UNCHANGED progVars ]_vars

\* stop() has run twice in a row after a start: one "Execution stopped".
C5_Witness_StopStop ==
    /\ lastOp.op = "stop"
    /\ lastOp.n = 1
    /\ executionInterval = Null
    /\ CountMessage(logs, <<"Execution stopped">>) = 1

\* C6: stop() with a timer cancels it, clears the handle, sets running to
\* false, appends exactly one "Execution stopped" entry and notifies it once;
\* the Session, the bindings, the connect flow, the runs in flight and the
\* earlier log entries are unchanged.
C6_StopWithTimer ==
    [][ (Ran("stop") /\ executionInterval # Null)
        => /\ executionInterval \notin DOMAIN timers'
           /\ executionInterval' = Null
           /\ ~isRunning'
           /\ logs' = Append(logs, <<Timestamp, ": ", "Execution stopped">>)
           /\ toasts' = Append(toasts, [kind |-> "plain",
                                        text |-> <<"Execution stopped">>])
           /\ UNCHANGED <<hasProvider, longTradeContract, shortTradeContract,
                          isConnected, isConnecting, connectPc, sessionNo,
                          runs, nextTimer>> ]_vars

\* stop() has cancelled a timer while a Dispatcher run was in flight.
C6_Witness_StoppedWhileRunning ==
    /\ lastOp.op = "stop"
    /\ lastOp.n = 0
    /\ LastMessage(logs) = <<"Execution stopped">>
    /\ executionInterval = Null
    /\ timers = NoTimers
    /\ ~NoRunAwaiting

\* C7: runOnce() invokes the Dispatcher exactly once (one "Executing
\* contracts..." entry and one new run, or one "Contracts not initialized"
\* entry and no run) and never creates, cancels or replaces the timer; and
\* running is false whenever no Dispatcher run is awaiting its calls, so
\* after runOnce() in Idle it is false again once the run has settled.
C7_RunOnce ==
    /\ [][ Ran("runOnce")
           => /\ UNCHANGED <<executionInterval, timers, nextTimer>>
              /\ Len(logs') = Len(logs) + 2
              /\ MessageOf(logs'[Len(logs) + 1]) = <<"Executing contracts once">>
              /\ \/ /\ LastMessage(logs') = <<"Executing contracts...">>
                    /\ Len(runs') = Len(runs) + 1
                 \/ /\ LastMessage(logs') = <<"Error: Contracts not initialized">>
                    /\ runs' = runs ]_vars
    /\ [](NoRunAwaiting => ~isRunning)

\* runOnce() was called in Idle while connected, and its run has settled.
C7_Witness_RunOnceSettled ==
    /\ lastOp.op = "settle"
    /\ executionInterval = Null
    /\ nextTimer = 1
    /\ CountMessage(logs, <<"Executing contracts once">>) = 1
    /\ CountMessage(logs, <<"Executing contracts...">>) = 1
    /\ NoRunAwaiting
    /\ ~isRunning

\* C8: after connect() succeeding, start(), two consecutive successful
\* Dispatcher runs and stop(), the log holds, in this order, "Wallet
\* connected successfully", two "Flash loans initiated successfully!" and
\* "Execution stopped", and running is false.
C8_EndToEndOrder ==
    CountMessage(logs, <<"Execution stopped">>) > 0
    => /\ \E i, j, k, l \in 1..Len(logs) :
            /\ i < j /\ j < k /\ k < l
            /\ MessageOf(logs[i]) = <<"Wallet connected successfully">>
            /\ MessageOf(logs[j]) = <<"Flash loans initiated successfully!">>
            /\ MessageOf(logs[k]) = <<"Flash loans initiated successfully!">>
            /\ MessageOf(logs[l]) = <<"Execution stopped">>
       /\ ~isRunning

\* The scenario has run to its end through the add-chain path.
C8_Witness_ScenarioDone ==
    /\ lastOp.op = "stop"
    /\ CountMessage(logs, <<"Successfully added Binance Smart Chain">>) = 1
    /\ CountMessage(logs, <<"Flash loans initiated successfully!">>) = 2
    /\ LastMessage(logs) = <<"Execution stopped">>

\* The step settles the chain-switch request with a rejection.
SwitchFailed == Ran("wallet_switchEthereumChain") /\ ~lastOp'.ok

\* C9: a chain-switch failure with code 4902 issues the add-chain request,
\* which is issued on no other occasion and never repeated: when it succeeds
\* the flow goes on to the account request, when it fails connect ends.  A
\* switch failure with any other code issues no add-chain and no account
\* request: connect ends there with the switch error logged and an error
\* notified, and the Session is left as it was (disconnected).
C9_SwitchFailure ==
    [][ /\ (SwitchFailed /\ lastOp'.err.code = 4902)
           => /\ connectPc' = "wallet_addEthereumChain"
              /\ UNCHANGED <<isConnected, isConnecting, toasts>>
        /\ (connectPc' = "wallet_addEthereumChain" /\ connectPc # connectPc')
           => (SwitchFailed /\ lastOp'.err.code = 4902)
        /\ (connectPc = "wallet_addEthereumChain" /\ connectPc # connectPc')
           => /\ Ran("wallet_addEthereumChain") \/ Ran("chainChanged")
              /\ connectPc' = IF Ran("wallet_addEthereumChain") /\ lastOp'.ok
                              THEN "eth_requestAccounts" ELSE "idle"
        /\ (SwitchFailed /\ lastOp'.err.code # 4902)
           => /\ connectPc' = "idle"
              /\ ~isConnecting'
              /\ Len(logs') = Len(logs) + 2
              /\ MessageOf(logs'[Len(logs) + 1])
                    = <<"Chain switch error: ">> \o lastOp'.err.message
              /\ MessageOf(logs'[Len(logs) + 2])
                    = <<"Connection error: ">> \o connectErrorMessage(lastOp'.err)
              /\ toasts' = Append(toasts, [kind |-> "error",
                                           text |-> connectErrorMessage(lastOp'.err)])
              /\ UNCHANGED <<isConnected, longTradeContract, shortTradeContract>>
              /\ (sessionNo = 0 => ~isConnected') ]_vars

\* The switch failed with 4902, the one add-chain request succeeded and
\* connect is suspended on the account request.
C9_Witness_AddedThenAccounts ==
    /\ lastOp.op = "wallet_addEthereumChain"
    /\ lastOp.ok
    /\ connectPc = "eth_requestAccounts"
    /\ CountMessage(logs, <<"Adding Binance Smart Chain to MetaMask...">>) = 1

\* C10: an accounts-changed notification with an empty list while connected
\* sets connected to false, clears both bindings and appends one "Wallet
\* disconnected" entry; a notification with a non-empty list changes nothing.
C10_AccountsChanged ==
    [][ Ran("accountsChanged")
        => IF lastOp'.text = <<>>
           THEN isConnected
                => /\ ~isConnected'
                   /\ longTradeContract' = Null
                   /\ shortTradeContract' = Null
                   /\ logs' = Append(logs, <<Timestamp, ": ", "Wallet disconnected">>)
                   /\ toasts' = Append(toasts, [kind |-> "info",
                                                text |-> <<"Wallet disconnected">>])
           ELSE UNCHANGED progVars ]_vars

\* A connected session has been reset by an empty notification.
C10_Witness_Disconnected ==
    /\ lastOp.op = "accountsChanged"
    /\ lastOp.text = <<>>
    /\ sessionNo = 1
    /\ ~isConnected
    /\ longTradeContract = Null
    /\ shortTradeContract = Null
    /\ CountMessage(logs, <<"Wallet disconnected">>) = 1
    /\ LastMessage(logs) = <<"Wallet disconnected">>

\* The step ends a connectWallet call: it returns at once for want of a
\* provider, or its last continuation runs.
ConnectEnds ==
    \/ Ran("connect") /\ ~hasProvider
    \/ /\ connectPc # "idle"
       /\ connectPc' = "idle"
       /\ lastOp'.op \in {"eth_chainId", "wallet_switchEthereumChain",
                          "wallet_addEthereumChain", "eth_requestAccounts",
                          "getSigner"}

\* C11: the connecting flag is false after every connect() call has
\* finished, whichever way it ends, and in every state in which no connect()
\* is in progress.
C11_ConnectingCleared ==
    /\ [][ ConnectEnds => ~isConnecting' ]_vars
    /\ [](connectPc = "idle" => ~isConnecting)

\* A connect() has ended in the catch block after the signer could not be
\* obtained.
C11_Witness_SignerFailed ==
    /\ lastOp.op = "getSigner"
    /\ ~lastOp.ok
    /\ connectPc = "idle"
    /\ ~isConnecting

\* The step emits an error notification.
NotifiesError ==
    /\ Len(toasts') = Len(toasts) + 1
    /\ toasts'[Len(toasts')].kind = "error"

\* C12: every failure of connect() or of the Dispatcher, the missing
\* provider and the absent bindings included, produces a notification and a
\* log entry: no step notifies an error without appending to the log.
C12_FailuresNotifyAndLog ==
    [][ NotifiesError => Len(logs') > Len(logs) ]_vars

\* C13: sanitize(message) is exactly "Action cancelled" for every message
\* that contains the marker "ethers-user-denied: " and not the signature
\* prefix, whatever precedes or follows the marker, and exactly
\* "Transaction failed" for every message that matches none of the three
\* patterns.
C13_SanitizeFixedStrings ==
    [][ Ran("sanitize") =>
          LET message == lastOp'.err.nested
          IN  /\ (Includes(message, DeniedMarker) /\ ~Includes(message, SigMarker))
                    => lastOp'.text = <<"Action cancelled">>
              /\ (/\ ~Includes(message, SigMarker)
                  /\ ~Includes(message, DeniedMarker)
                  /\ ~Includes(message, RevertMarker))
                    => lastOp'.text = <<"Transaction failed">> ]_vars

\* The message the order of C14 picks for an error.
FirstMatch(error) ==
    IF error.code = 4001 \/ error.reason = <<"rejected">>
    THEN <<"You rejected the transaction">>
    ELSE IF Includes(error.message, "user denied transaction")
    THEN <<"You denied the transaction">>
    ELSE IF error.nested # <<>>
    THEN sanitizeErrorMessage(error.nested)
    ELSE <<"Transaction was rejected">>

\* C14: on a failed Dispatcher run the user message is the first match of:
\* code 4001 or reason "rejected"; a message containing "user denied
\* transaction"; a nested provider message, sanitized; else "Transaction
\* was rejected"; and that one message is appended to the log (after
\* "Execution error: ") and notified as an error, once each.
C14_FailureMessageByFirstMatch ==
    [][ (RunExits /\ ~lastOp'.ok) =>
          /\ logs' = addLog(logs, <<"Execution error: ">> \o FirstMatch(lastOp'.err))
          /\ toasts' = toast(toasts, "error", FirstMatch(lastOp'.err)) ]_vars

\* A run failed with an error that has the code, a "user denied" message and
\* a nested provider message at once, and the code decided.
C14_Witness_CodeBeforeMessage ==
    /\ lastOp.op = "settle"
    /\ lastOp.err.code = 4001
    /\ Includes(lastOp.err.message, "user denied transaction")
    /\ Includes(lastOp.err.nested, RevertMarker)
    /\ LastMessage(logs) = <<"Execution error: ", "You rejected the transaction">>

\* C15: a Dispatcher run has logged its outcome and reset running only
\* after both initiateFlashLoan calls have settled: no run is past its join
\* while one of its two calls is still in flight.
C15_OutcomeOnlyAfterBothSettled ==
    \A i \in 1..Len(runs) :
        ~runs[i].awaiting => runs[i].tx1 # "pending" /\ runs[i].tx2 # "pending"

\* The bindings the executeContracts invoked by this step reads.
SeenBindings ==
    IF Ran("timer")
    THEN timers[lastOp'.n]
    ELSE Bindings(longTradeContract, shortTradeContract)

\* The entry is the outcome entry of a Dispatcher run.
IsSuccessEntry(entry) == MessageOf(entry) = <<"Flash loans initiated successfully!">>
IsErrorEntry(entry) ==
    /\ Len(MessageOf(entry)) >= 1
    /\ MessageOf(entry)[1] = "Execution error: "

\* C16: every Dispatcher run that passes the binding precondition appends
\* "Executing contracts..." and issues initiateFlashLoan on both bindings;
\* its outcome entry is appended by the one step that resumes it from its
\* join, and is the success entry if and only if both calls have resolved
\* and an "Execution error" entry if a call has rejected; no other step
\* appends an outcome entry, and no run is left suspended once a call has
\* rejected or both have resolved.
C16_ExactlyOneOutcome ==
    /\ [][ (Dispatches /\ SeenBindings.long # Null /\ SeenBindings.short # Null) =>
             /\ logs' = Append(SubSeq(logs', 1, Len(logs') - 1),
                               <<Timestamp, ": ", "Executing contracts...">>)
             /\ runs' = Append(runs, [long |-> SeenBindings.long,
                                      short |-> SeenBindings.short,
                                      tx1 |-> "pending", tx2 |-> "pending",
                                      awaiting |-> TRUE]) ]_vars
    /\ [][ RunExits =>
             LET before == runs[lastOp'.n]
                 call == lastOp'.text[1]
                 other == IF call = "tx1" THEN "tx2" ELSE "tx1"
                 bothResolved == lastOp'.ok /\ before[other] = "resolved"
             IN  /\ Len(logs') = Len(logs) + 1
                 /\ SubSeq(logs', 1, Len(logs)) = logs
                 /\ IsSuccessEntry(logs'[Len(logs')]) <=> bothResolved
                 /\ IsErrorEntry(logs'[Len(logs')]) <=> ~lastOp'.ok
                 /\ bothResolved \/ ~lastOp'.ok ]_vars
    /\ [][ (/\ Len(logs') > Len(logs)
            /\ \/ IsSuccessEntry(logs'[Len(logs')])
               \/ IsErrorEntry(logs'[Len(logs')])) => RunExits ]_vars
    /\ [](\A i \in 1..Len(runs) :
            runs[i].awaiting =>
                /\ runs[i].tx1 # "rejected"
                /\ runs[i].tx2 # "rejected"
                /\ runs[i].tx1 = "pending" \/ runs[i].tx2 = "pending")

\* A run has ended with the success entry, its second call having resolved
\* after its first.
C16_Witness_BothResolved ==
    /\ lastOp.op = "settle"
    /\ lastOp.ok
    /\ lastOp.text = <<"tx2">>
    /\ IsSuccessEntry(logs[Len(logs)])

\* C17: after stop() no timer is left to fire until the next start() (a
\* timer that fires is the one the handle names, and stop() leaves no
\* handle and no timer); stop() aborts no Dispatcher run in flight, whose
\* outcome entry is still appended when it leaves its join.
C17_StopPreventsOnlyFutureFirings ==
    /\ [][ Ran("timer") =>
             executionInterval # Null /\ lastOp'.n = executionInterval ]_vars
    /\ [][ Ran("stop") =>
             /\ executionInterval' = Null
             /\ DOMAIN timers' = {}
             /\ runs' = runs ]_vars
    /\ [](executionInterval = Null => DOMAIN timers = {})
    /\ [][ (RunExits /\ executionInterval = Null) =>
             /\ Len(logs') = Len(logs) + 1
             /\ \/ IsSuccessEntry(logs'[Len(logs')])
                \/ IsErrorEntry(logs'[Len(logs')]) ]_vars

\* The outcome entry of a run that was in flight when stop() was called
\* directly follows the "Execution stopped" entry.
C17_Witness_OutcomeAfterStopped ==
    /\ lastOp.op = "settle"
    /\ executionInterval = Null
    /\ Len(logs) >= 2
    /\ MessageOf(logs[Len(logs) - 1]) = <<"Execution stopped">>
    /\ IsSuccessEntry(logs[Len(logs)]) \/ IsErrorEntry(logs[Len(logs)])

\* C18: a Dispatcher run that fails while the Scheduler is Active leaves
\* the timer handle and the timer as they were, so the timer can fire again.
C18_FailureKeepsTimer ==
    [][ (RunExits /\ ~lastOp'.ok /\ executionInterval # Null) =>
          /\ UNCHANGED <<executionInterval, timers>>
          /\ executionInterval' \in DOMAIN timers' ]_vars

\* The timer fires and starts a run directly after a run failed.
C18_Witness_FiresAfterFailure ==
    /\ lastOp.op = "timer"
    /\ Len(logs) >= 2
    /\ IsErrorEntry(logs[Len(logs) - 1])
    /\ MessageOf(logs[Len(logs)]) = <<"Executing contracts...">>

\* C19: once an empty accounts-changed notification has reset the Session
\* while the Scheduler is Active, every timer firing while the Session is
\* still reset appends "Contracts not initialized" and invokes
\* initiateFlashLoan on no binding.
C19_FiringsAfterResetSeeNoBindings ==
    [][ (/\ Ran("timer")
         /\ ~isConnected
         /\ longTradeContract = Null
         /\ shortTradeContract = Null
         /\ CountMessage(logs, <<"Wallet disconnected">>) > 0)
        => /\ logs' = addLog(logs, <<"Error: Contracts not initialized">>)
           /\ runs' = runs ]_vars

\* The step ends a connectWallet call in its catch block.
ConnectFailed ==
    /\ ConnectEnds
    /\ hasProvider
    /\ LastMessage(logs')[1] = "Connection error: "

\* C20: connected is true exactly when both contract bindings are present;
\* a successful connect() sets the three together, a failed connect() (an
\* empty account list included) leaves connected and both bindings as they
\* were, and the disconnect handler clears the three together.
C20_ConnectedIffBindings ==
    /\ [](isConnected <=> (longTradeContract # Null /\ shortTradeContract # Null))
    /\ [](isConnected <=> (longTradeContract # Null \/ shortTradeContract # Null))
    /\ [][ (Ran("getSigner") /\ lastOp'.ok) =>
             /\ isConnected'
             /\ longTradeContract' # Null
             /\ shortTradeContract' = longTradeContract' ]_vars
    /\ [][ ConnectFailed =>
             UNCHANGED <<isConnected, longTradeContract, shortTradeContract>> ]_vars
    /\ [][ (Ran("accountsChanged") /\ isConnected /\ lastOp'.text = <<>>) =>
             /\ ~isConnected'
             /\ longTradeContract' = Null
             /\ shortTradeContract' = Null ]_vars

\* A connect() issued while connected failed on an empty account list and
\* the session is still connected with both bindings.
C20_Witness_FailedWhileConnected ==
    /\ lastOp.op = "eth_requestAccounts"
    /\ lastOp.text = <<>>
    /\ lastOp.ok
    /\ connectPc = "idle"
    /\ isConnected
    /\ longTradeContract # Null

\* C21: an accounts-changed or chain-changed notification delivered while
\* the Session is disconnected reaches no handler: Session, bindings,
\* ExecutionState, the timers, the runs in flight, the log and the
\* notifications are unchanged.
C21_NotificationsWhileDisconnected ==
    [][ ((Ran("accountsChanged") \/ Ran("chainChanged")) /\ ~isConnected)
        => UNCHANGED progVars ]_vars

\* An empty accounts-changed notification was delivered after the reset of
\* an earlier one and appended nothing.
C21_Witness_SecondEmptyList ==
    /\ lastOp.op = "accountsChanged"
    /\ lastOp.text = <<>>
    /\ ~isConnected
    /\ CountMessage(logs, <<"Wallet disconnected">>) = 1
    /\ LastMessage(logs) # <<"Wallet disconnected">>

\* C22: a chain-changed notification delivered while connected leaves the
\* component in its initial state: disconnected, both bindings absent, no
\* timer handle, running and connecting false, empty log, no connect and no
\* run in progress, and no timer of the page left to fire.
C22_ChainChangedHardReset ==
    [][ (Ran("chainChanged") /\ isConnected /\ hasProvider) =>
          /\ ~isConnected'
          /\ longTradeContract' = Null
          /\ shortTradeContract' = Null
          /\ executionInterval' = Null
          /\ ~isRunning'
          /\ ~isConnecting'
          /\ logs' = <<>>
          /\ runs' = <<>>
          /\ connectPc' = "idle"
          /\ DOMAIN timers' = {} ]_vars

\* The notification arrived while a timer was armed, and none is left.
C22_Witness_ResetWithTimerArmed ==
    /\ lastOp.op = "chainChanged"
    /\ lastOp.ok
    /\ lastOp.n # Null
    /\ executionInterval = Null
    /\ DOMAIN timers = {}

\* C23: running is true in every reachable state in which at least one
\* Dispatcher run is in flight (suspended on its join), overlapping runs
\* included.
C23_RunningWhileAnyRunInFlight ==
    (\E i \in 1..Len(runs) : runs[i].awaiting) => isRunning

\* C23, amended: running is set to true by every Dispatcher run that passes
\* the binding precondition and is true only while at least one run is in
\* flight; it is false after any one run exits and after a stop() that
\* found a timer, even while other runs are still in flight.
C23_RunningOnlyWhileSomeRunInFlight ==
    /\ [](isRunning => \E i \in 1..Len(runs) : runs[i].awaiting)
    /\ [][ (Dispatches /\ SeenBindings.long # Null /\ SeenBindings.short # Null)
             => isRunning' ]_vars
    /\ [][ (RunExits \/ (Ran("stop") /\ executionInterval # Null))
             => ~isRunning' ]_vars

\* Of two overlapping runs the earlier has finished first: running is false
\* while the later is still in flight.
C23_Witness_EarlierRunFinishedFirst ==
    /\ lastOp.op = "settle"
    /\ lastOp.ok
    /\ lastOp.n = 1
    /\ IsSuccessEntry(logs[Len(logs)])
    /\ ~isRunning
    /\ \E i \in 1..Len(runs) : runs[i].awaiting

\* The step destroys the component: a reload on a chain-changed notification.
Reloads == Ran("chainChanged") /\ lastOp'.ok

\* C24: within a component lifetime every step (connect and its
\* continuations, the Dispatcher and its continuations, start, stop,
\* runOnce, a timer firing, the accounts-changed handler) leaves the entries
\* the log holds and their order as they were and adds entries only at the
\* end.
C24_LogAppendOnly ==
    [][ ~Reloads =>
          /\ Len(logs') >= Len(logs)
          /\ SubSeq(logs', 1, Len(logs)) = logs ]_vars

\* Continuations interleave: a run has appended its success entry while a
\* later run, whose start entry precedes it, is still suspended.
C24_Witness_InterleavedAppends ==
    /\ lastOp.op = "settle"
    /\ IsSuccessEntry(logs[Len(logs)])
    /\ \E i \in 1..Len(runs) : runs[i].awaiting
    /\ CountMessage(logs, <<"Executing contracts...">>) >= 2

====
